---- MODULE Spec2Model ----
(***************************************************************************)
(* A model of the rgo lexer (src/src/lexer/mod.rs): the Lexer struct, its  *)
(* constructor, bump(), the Iterator::next() implementation and the        *)
(* tokenize() convenience function; and of the constructors of Parameters  *)
(* (src/src/ast/mod.rs).                                                   *)
(*                                                                         *)
(* The source string is a sequence of UTF-8 bytes, each byte a string.     *)
(* ASCII bytes are written as themselves; "C2" and "C3" are lead bytes of  *)
(* two-byte characters and "A0" and "A9" are continuation bytes.  A char   *)
(* is a string too: an ASCII char is its byte, a two-byte char is named by *)
(* its code point.  Option<char> is <<>> (None) or <<c>> (Some(c)).        *)
(***************************************************************************)
EXTENDS Integers, Sequences, FiniteSets, TLC

VARIABLES
    src,            \* Lexer.src: the source string, as bytes
    pos,            \* Lexer.pos: byte offset from the start
    current_char,   \* Lexer.current_char: Option<char>
    last,           \* how the last call of next() ended: "init" (no call yet),
                    \* "some", "none" or "panic"
    tokens,         \* the tokens next() has returned so far, in order
    spans,          \* for each of them, <<pos before the call, pos after it>>
    nones,          \* how many times next() has returned None
    parameters      \* the last call of a constructor of Parameters: None, or
                    \* Some of the constructor, its argument and its value

vars == <<src, pos, current_char, last, tokens, spans, nones, parameters>>

---------------------------------------------------------------------------
(* Bounds of the model.                                                    *)

\* longest source over the general alphabet, in bytes
MaxLen == 3
\* longest source made of single-character tokens only
MaxDelimLen == 3
\* longest source made of identifier characters only
MaxIdentLen == 4
\* how many times next() is called again after it has returned None
MaxNone == 2
\* longest source made of the characters of string literals only
MaxStrLen == 4
\* longest identifier in a type name, in bytes
MaxNameLen == 2

---------------------------------------------------------------------------
(* Characters.                                                             *)

None == <<>>
Some(c) == <<c>>

LeadBytes == {"C2", "C3"}
ContinuationBytes == {"A0", "A9"}

\* the bytes of the single-character tokens
DelimBytes == {"(", ")", "{", "}", "[", "]", ","}
\* the bytes identifiers are made of ("goto" and "go" are keywords)
IdentBytes == {"g", "o", "t", "1"}
\* the bytes string literals are made of, and one that ends an identifier
StringBytes == {"\"", "\\", "g", "(", "C3", "A9"}
\* a byte of every class the lexer tells apart
GeneralBytes ==
    {"(", ".", "+", "-", "|", "=", "g", "o", "1", " ", "\n", "\"", "\\", "#"}
        \cup LeadBytes \cup ContinuationBytes

\* char::is_alphabetic, on the characters of the model
is_alphabetic(c) == c \in {"g", "o", "t", "U+00E0", "U+00E9"}
\* char::is_numeric
is_numeric(c) == c \in {"1"}
\* char::is_whitespace (U+00A0 NO-BREAK SPACE has the White_Space property)
is_whitespace(c) == c \in {" ", "\n", "U+00A0"}

can_start_identifier(c) == is_alphabetic(c)

can_continue_identifier(c) == is_alphabetic(c) \/ is_numeric(c)

\* str::is_char_boundary: offset i (0-based) of s starts a character or ends s
is_char_boundary(s, i) ==
    \/ i = 0
    \/ i = Len(s)
    \/ i < Len(s) /\ s[i + 1] \notin ContinuationBytes

\* the character a lead byte and its continuation byte encode
Decode2(lead, cont) ==
    CASE lead = "C2" /\ cont = "A0" -> "U+00A0"
      [] lead = "C2" /\ cont = "A9" -> "U+00A9"
      [] lead = "C3" /\ cont = "A0" -> "U+00E0"
      [] OTHER -> "U+00E9"

\* s.chars().next(): the first character of the bytes s from offset i on
FirstCharFrom(s, i) ==
    IF i >= Len(s) THEN None
    ELSE IF s[i + 1] \in LeadBytes THEN Some(Decode2(s[i + 1], s[i + 2]))
    ELSE Some(s[i + 1])

\* char_at(s, byte) = s[byte..].chars().next().unwrap(): the slice panics off a
\* character boundary and the unwrap panics at the end of s
char_at(s, byte) ==
    IF byte < Len(s) /\ is_char_boundary(s, byte)
    THEN [panic |-> FALSE, ch |-> FirstCharFrom(s, byte)[1]]
    ELSE [panic |-> TRUE, ch |-> ""]

\* &s[a..b]: panics unless a <= b <= len and both are character boundaries
Slice(s, a, b) ==
    IF a <= b /\ b <= Len(s) /\ is_char_boundary(s, a) /\ is_char_boundary(s, b)
    THEN [panic |-> FALSE, text |-> SubSeq(s, a + 1, b)]
    ELSE [panic |-> TRUE, text |-> <<>>]

\* a &str holds valid UTF-8: every lead byte is followed by a continuation byte
\* and every continuation byte follows a lead byte
ValidUtf8(s) ==
    \A i \in 1..Len(s) :
        /\ s[i] \in LeadBytes => i < Len(s) /\ s[i + 1] \in ContinuationBytes
        /\ s[i] \in ContinuationBytes => i > 1 /\ s[i - 1] \in LeadBytes

---------------------------------------------------------------------------
(* Tokens.                                                                 *)

Tok(kind, arg) == [kind |-> kind, arg |-> arg]
NoTok == Tok("", <<>>)

\* the match on the identifier text in next(): the keyword, or "" when the
\* text is not a keyword
KeywordOf(ident) ==
    CASE ident = <<"b","r","e","a","k">> -> "Break"
      [] ident = <<"c","a","s","e">> -> "Case"
      [] ident = <<"c","h","a","n">> -> "Chan"
      [] ident = <<"c","o","n","s","t">> -> "Const"
      [] ident = <<"c","o","n","t","i","n","u","e">> -> "Continue"
      [] ident = <<"d","e","f","a","u","l","t">> -> "Default"
      [] ident = <<"d","e","f","e","r">> -> "Defer"
      [] ident = <<"e","l","s","e">> -> "Else"
      [] ident = <<"f","a","l","l","t","h","r","o","u","g","h">> -> "Fallthrough"
      [] ident = <<"f","o","r">> -> "For"
      [] ident = <<"f","u","n","c">> -> "Func"
      [] ident = <<"g","o">> -> "Go"
      [] ident = <<"g","o","t","o">> -> "Goto"
      [] ident = <<"i","f">> -> "If"
      [] ident = <<"i","m","p","o","r","t">> -> "Import"
      [] ident = <<"i","n","t","e","r","f","a","c","e">> -> "Interface"
      [] ident = <<"m","a","p">> -> "Map"
      [] ident = <<"p","a","c","k","a","g","e">> -> "Package"
      [] ident = <<"r","a","n","g","e">> -> "Range"
      [] ident = <<"r","e","t","u","r","n">> -> "Return"
      [] ident = <<"s","e","l","e","c","t">> -> "Select"
      [] ident = <<"s","t","r","u","c","t">> -> "Struct"
      [] ident = <<"s","w","i","t","c","h">> -> "Switch"
      [] ident = <<"t","y","p","e">> -> "Type"
      [] ident = <<"v","a","r">> -> "Var"
      [] OTHER -> ""

\* the token of the identifier arm for the text ident
IdentToken(ident) ==
    IF KeywordOf(ident) # "" THEN Tok("Keyword", <<KeywordOf(ident)>>)
    ELSE Tok("Ident", ident)

\* SingleCharToken with a copy-and-paste slip in the ']' arm, which gives
\* the token of '['
SingleCharToken_CloseBracketOpens(c) ==
    CASE c = "(" -> Tok("OpenDelim", <<"Paren">>)
      [] c = ")" -> Tok("CloseDelim", <<"Paren">>)
      [] c = "{" -> Tok("OpenDelim", <<"Brace">>)
      [] c = "}" -> Tok("CloseDelim", <<"Brace">>)
      [] c = "[" -> Tok("OpenDelim", <<"Bracket">>)
      [] c = "]" -> Tok("OpenDelim", <<"Bracket">>)
      [] OTHER -> Tok("Comma", <<>>)

\* the token of a single-character arm
SingleCharToken(c) ==
    CASE c = "(" -> Tok("OpenDelim", <<"Paren">>)
      [] c = ")" -> Tok("CloseDelim", <<"Paren">>)
      [] c = "{" -> Tok("OpenDelim", <<"Brace">>)
      [] c = "}" -> Tok("CloseDelim", <<"Brace">>)
      [] c = "[" -> Tok("OpenDelim", <<"Bracket">>)
      [] c = "]" -> Tok("CloseDelim", <<"Bracket">>)
      [] OTHER -> Tok("Comma", <<>>)

\* the tokens of an operator arm: doubled, assignment and short form
DoubledToken(c) ==
    CASE c = "+" -> Tok("Increment", <<>>)
      [] c = "-" -> Tok("Decrement", <<>>)
      [] OTHER -> Tok("PipePipe", <<>>)

AssignToken(c) ==
    CASE c = "+" -> Tok("PlusEquals", <<>>)
      [] c = "-" -> Tok("MinusEquals", <<>>)
      [] OTHER -> Tok("PipeEquals", <<>>)

ShortToken(c) ==
    CASE c = "+" -> Tok("Plus", <<>>)
      [] c = "-" -> Tok("Minus", <<>>)
      [] OTHER -> Tok("Pipe", <<>>)

---------------------------------------------------------------------------
(* The lexer.  Its operations are functions of the lexer's fields          *)
(* (src, pos, current_char), here (s, p, cc).                              *)

\* Lexer::new(s): the fields pos and current_char of the new lexer
LexerNew(s) == [pos |-> 0, current_char |-> FirstCharFrom(s, 0)]

\* bump with the end test off by one: current_char becomes None one byte
\* before the end of the source
bump_EndOffByOne(s, p, cc) ==
    LET np == p + 1 IN
    IF np < Len(s) - 1
    THEN IF char_at(s, np).panic
         THEN [pos |-> np, current_char |-> cc, panic |-> TRUE]
         ELSE [pos |-> np, current_char |-> Some(char_at(s, np).ch), panic |-> FALSE]
    ELSE [pos |-> np, current_char |-> None, panic |-> FALSE]

\* Lexer::bump(): pos is incremented by one BYTE; then current_char is the
\* character at pos, or None at or after the end.  char_at panics when pos is
\* inside a character, after pos was incremented.
bump(s, p, cc) ==
    LET np == p + 1 IN
    IF np < Len(s)
    THEN IF char_at(s, np).panic
         THEN [pos |-> np, current_char |-> cc, panic |-> TRUE]
         ELSE [pos |-> np, current_char |-> Some(char_at(s, np).ch), panic |-> FALSE]
    ELSE [pos |-> np, current_char |-> None, panic |-> FALSE]

\* what a call of next() leaves: the fields, how it ended, the token returned
RetSome(b, tok) ==
    [pos |-> b.pos, current_char |-> b.current_char, outcome |-> "some", tok |-> tok]
RetPanic(b) ==
    [pos |-> b.pos, current_char |-> b.current_char, outcome |-> "panic", tok |-> NoTok]
RetNone_Advances(p, cc) ==
    [pos |-> p + 1, current_char |-> cc, outcome |-> "none", tok |-> NoTok]
RetNone(p, cc) ==
    [pos |-> p, current_char |-> cc, outcome |-> "none", tok |-> NoTok]

\* the arm of the match in next() that takes the character c: the first arm
\* whose pattern or guard holds
ArmOf(c) ==
    IF c \in DelimBytes THEN "single"
    ELSE IF c = "." THEN "dot"
    ELSE IF c \in {"+", "-", "|"} THEN "operator"
    ELSE IF can_start_identifier(c) THEN "identifier"
    ELSE IF is_whitespace(c) THEN "whitespace"
    ELSE IF c = "\"" THEN "string"
    ELSE "unexpected"

\* the arms '(' ')' '{' '}' '[' ']' ',': bump, then the token
ArmSingle(s, p, cc) ==
    LET b == bump(s, p, cc) IN
    IF b.panic THEN RetPanic(b) ELSE RetSome(b, SingleCharToken(cc[1]))

\* the arm '.'
ArmDot(s, p, cc) ==
    LET b == bump(s, p, cc) IN
    IF b.panic THEN RetPanic(b) ELSE RetSome(b, Tok("Dot", <<>>))

\* ArmOperator without the lookahead: the short form whatever follows
ArmOperator_NoLookahead(s, p, cc) ==
    LET b1 == bump(s, p, cc) IN
    IF b1.panic THEN RetPanic(b1) ELSE RetSome(b1, ShortToken(cc[1]))

\* ArmOperator with a copy-and-paste slip: every operator arm tests the
\* character that follows against '+', as the '+' arm does
ArmOperator_FollowIsPlus(s, p, cc) ==
    LET c == cc[1]
        b1 == bump(s, p, cc)
        b2 == bump(s, b1.pos, b1.current_char)
    IN  IF b1.panic THEN RetPanic(b1)
        ELSE IF b1.current_char = Some("+")
             THEN IF b2.panic THEN RetPanic(b2) ELSE RetSome(b2, DoubledToken(c))
        ELSE IF b1.current_char = Some("=")
             THEN IF b2.panic THEN RetPanic(b2) ELSE RetSome(b2, AssignToken(c))
        ELSE RetSome(b1, ShortToken(c))

\* the arms '+' '-' '|': bump, then match on the character that follows
ArmOperator(s, p, cc) ==
    LET c == cc[1]
        b1 == bump(s, p, cc)
        b2 == bump(s, b1.pos, b1.current_char)
    IN  IF b1.panic THEN RetPanic(b1)
        ELSE IF b1.current_char = Some(c)
             THEN IF b2.panic THEN RetPanic(b2) ELSE RetSome(b2, DoubledToken(c))
        ELSE IF b1.current_char = Some("=")
             THEN IF b2.panic THEN RetPanic(b2) ELSE RetSome(b2, AssignToken(c))
        ELSE RetSome(b1, ShortToken(c))

\* the loop of the identifier arm: bump while can_continue_identifier
RECURSIVE IdentLoop(_, _, _)
IdentLoop(s, p, cc) ==
    IF cc # None /\ can_continue_identifier(cc[1])
    THEN LET b == bump(s, p, cc) IN
         IF b.panic THEN b ELSE IdentLoop(s, b.pos, b.current_char)
    ELSE [pos |-> p, current_char |-> cc, panic |-> FALSE]

\* ArmIdentifier with the slice taken from the start of the source,
\* src[0..pos], instead of from the start of the identifier
ArmIdentifier_SliceFromZero(s, p, cc) ==
    LET lp == IdentLoop(s, p, cc)
        ident == Slice(s, 0, lp.pos)
    IN  IF lp.panic \/ ident.panic THEN RetPanic(lp)
        ELSE RetSome(lp, IdentToken(ident.text))

\* the identifier arm: the loop, the slice src[start..pos], the keyword match
ArmIdentifier(s, p, cc) ==
    LET start == p
        lp == IdentLoop(s, p, cc)
        ident == Slice(s, start, lp.pos)
    IN  IF lp.panic \/ ident.panic THEN RetPanic(lp)
        ELSE RetSome(lp, IdentToken(ident.text))

\* the loop of the whitespace arm: bump while is_whitespace
RECURSIVE WhitespaceLoop(_, _, _)
WhitespaceLoop(s, p, cc) ==
    IF cc # None /\ is_whitespace(cc[1])
    THEN LET b == bump(s, p, cc) IN
         IF b.panic THEN b ELSE WhitespaceLoop(s, b.pos, b.current_char)
    ELSE [pos |-> p, current_char |-> cc, panic |-> FALSE]

\* the whitespace arm
ArmWhitespace(s, p, cc) ==
    LET lp == WhitespaceLoop(s, p, cc) IN
    IF lp.panic THEN RetPanic(lp) ELSE RetSome(lp, Tok("Whitespace", <<>>))

\* the loop of the string arm: bump while the character is not '"'
RECURSIVE StringLoop(_, _, _)
StringLoop(s, p, cc) ==
    IF cc # None /\ cc[1] # "\""
    THEN LET b == bump(s, p, cc) IN
         IF b.panic THEN b ELSE StringLoop(s, b.pos, b.current_char)
    ELSE [pos |-> p, current_char |-> cc, panic |-> FALSE]

\* ArmString with the closing quote skipped before the slice is taken, so
\* that the slice ends after the quote
ArmString_SliceAfterSkip(s, p, cc) ==
    LET b1 == bump(s, p, cc)
        start == b1.pos
        lp == StringLoop(s, b1.pos, b1.current_char)
        b2 == bump(s, lp.pos, lp.current_char)
        str == Slice(s, start, b2.pos)
    IN  IF b1.panic THEN RetPanic(b1)
        ELSE IF lp.panic THEN RetPanic(lp)
        ELSE IF b2.panic \/ str.panic THEN RetPanic(b2)
        ELSE RetSome(b2, Tok("LiteralStr", str.text))

\* the string arm: bump over the opening quote, the loop, the slice
\* src[start..pos], a bump over the closing quote
ArmString(s, p, cc) ==
    LET b1 == bump(s, p, cc)
        start == b1.pos
        lp == StringLoop(s, b1.pos, b1.current_char)
        str == Slice(s, start, lp.pos)
        b2 == bump(s, lp.pos, lp.current_char)
    IN  IF b1.panic THEN RetPanic(b1)
        ELSE IF lp.panic \/ str.panic THEN RetPanic(lp)
        ELSE IF b2.panic THEN RetPanic(b2)
        ELSE RetSome(b2, Tok("LiteralStr", str.text))

\* the last arm: panic!("unexpected start of token")
ArmUnexpected(s, p, cc) == RetPanic([pos |-> p, current_char |-> cc])

\* Iterator::next() for Lexer
LexerNext(s, p, cc) ==
    IF cc = None THEN RetNone(p, cc)
    ELSE CASE ArmOf(cc[1]) = "single" -> ArmSingle(s, p, cc)
           [] ArmOf(cc[1]) = "dot" -> ArmDot(s, p, cc)
           [] ArmOf(cc[1]) = "operator" -> ArmOperator(s, p, cc)
           [] ArmOf(cc[1]) = "identifier" -> ArmIdentifier(s, p, cc)
           [] ArmOf(cc[1]) = "whitespace" -> ArmWhitespace(s, p, cc)
           [] ArmOf(cc[1]) = "string" -> ArmString(s, p, cc)
           [] OTHER -> ArmUnexpected(s, p, cc)

\* lexer.collect(): call next() until it returns None
RECURSIVE Collect(_, _, _, _)
Collect(s, p, cc, acc) ==
    LET r == LexerNext(s, p, cc) IN
    IF r.outcome = "none" THEN [panic |-> FALSE, tokens |-> acc]
    ELSE IF r.outcome = "panic" THEN [panic |-> TRUE, tokens |-> acc]
    ELSE Collect(s, r.pos, r.current_char, Append(acc, r.tok))

\* tokenize(s)
tokenize(s) == Collect(s, LexerNew(s).pos, LexerNew(s).current_char, <<>>)

---------------------------------------------------------------------------
(* The state machine: a lexer is made over a source, then next() is called *)
(* again and again.                                                        *)

\* the byte strings of at most n bytes over the alphabet A
StringsUpTo(A, n) == UNION {[1..k -> A] : k \in 0..n}

\* the sources of the model: the valid UTF-8 strings over the general
\* alphabet, and longer ones of single-character tokens, of identifier
\* characters or of the characters of string literals alone
Sources ==
    {s \in StringsUpTo(GeneralBytes, MaxLen) : ValidUtf8(s)}
        \cup StringsUpTo(DelimBytes, MaxDelimLen)
        \cup StringsUpTo(IdentBytes, MaxIdentLen)
        \cup {s \in StringsUpTo(StringBytes, MaxStrLen) : ValidUtf8(s)}

Init ==
    /\ src \in Sources
    /\ pos = LexerNew(src).pos
    /\ current_char = LexerNew(src).current_char
    /\ last = "init"
    /\ tokens = <<>>
    /\ spans = <<>>
    /\ nones = 0
    /\ parameters = None

\* next() can be called: no call has panicked, and after None it is called
\* again at most MaxNone - 1 times
Callable == last # "panic" /\ nones < MaxNone

\* the effect of a call of next() that leaves r
Return(r) ==
    /\ pos' = r.pos
    /\ current_char' = r.current_char
    /\ last' = r.outcome
    /\ tokens' = IF r.outcome = "some" THEN Append(tokens, r.tok) ELSE tokens
    /\ spans' = IF r.outcome = "some" THEN Append(spans, <<pos, r.pos>>) ELSE spans
    /\ nones' = IF r.outcome = "none" THEN nones + 1 ELSE nones
    /\ UNCHANGED <<src, parameters>>

\* next() at end of input
NextEOF ==
    /\ Callable
    /\ current_char = None
    /\ Return(RetNone(pos, current_char))

NextSingleChar ==
    /\ Callable
    /\ current_char # None
    /\ ArmOf(current_char[1]) = "single"
    /\ Return(ArmSingle(src, pos, current_char))

NextDot ==
    /\ Callable
    /\ current_char # None
    /\ ArmOf(current_char[1]) = "dot"
    /\ Return(ArmDot(src, pos, current_char))

NextOperator ==
    /\ Callable
    /\ current_char # None
    /\ ArmOf(current_char[1]) = "operator"
    /\ Return(ArmOperator(src, pos, current_char))

NextIdentifier ==
    /\ Callable
    /\ current_char # None
    /\ ArmOf(current_char[1]) = "identifier"
    /\ Return(ArmIdentifier(src, pos, current_char))

NextWhitespace ==
    /\ Callable
    /\ current_char # None
    /\ ArmOf(current_char[1]) = "whitespace"
    /\ Return(ArmWhitespace(src, pos, current_char))

NextString ==
    /\ Callable
    /\ current_char # None
    /\ ArmOf(current_char[1]) = "string"
    /\ Return(ArmString(src, pos, current_char))

NextUnexpected ==
    /\ Callable
    /\ current_char # None
    /\ ArmOf(current_char[1]) = "unexpected"
    /\ Return(ArmUnexpected(src, pos, current_char))

Next ==
    \/ NextEOF
    \/ NextSingleChar
    \/ NextDot
    \/ NextOperator
    \/ NextIdentifier
    \/ NextWhitespace
    \/ NextString
    \/ NextUnexpected

Spec == Init /\ [][Next]_vars

---------------------------------------------------------------------------
(* The parameter lists of the syntax tree (src/src/ast/mod.rs).            *)

\* the identifiers a type name is made of: a letter, then letters and digits
Identifiers ==
    {s \in StringsUpTo(IdentBytes, MaxNameLen) :
        s # <<>> /\ can_start_identifier(s[1])}

\* MaybeQualifiedIdent { package: Option<String>, name: String }
MaybeQualifiedIdent ==
    {<<package, name>> :
        package \in {None} \cup {Some(i) : i \in Identifiers}, name \in Identifiers}

\* enum TypeLiteral: its eight variants, each of a unit struct
TypeLiteral ==
    {"Array", "Struct", "Pointer", "Function", "Interface", "Slice", "Map", "Chan"}

\* enum Type { Plain(MaybeQualifiedIdent), Literal(TypeLiteral) }
Type ==
    {<<"Plain", q[1], q[2]>> : q \in MaybeQualifiedIdent}
        \cup {<<"Literal", l>> : l \in TypeLiteral}

\* ParameterDecl { identifiers, typ }
ParameterDecl(identifiers, typ) == [identifiers |-> identifiers, typ |-> typ]

\* Parameters { decls }
Parameters(decls) == [decls |-> decls]

\* Parameters::empty()
empty == Parameters(<<>>)

\* from_single_type with an identifier made up for the unnamed parameter
from_single_type_FakeIdentifier(t) ==
    Parameters(<<ParameterDecl(<<"_">>, t)>>)

\* Parameters::from_single_type(t)
from_single_type(t) == Parameters(<<ParameterDecl(<<>>, t)>>)

\* the syntax tree is built apart from the lexer: no lexer runs meanwhile
InitAst ==
    /\ src = <<>>
    /\ pos = LexerNew(src).pos
    /\ current_char = LexerNew(src).current_char
    /\ last = "init"
    /\ tokens = <<>>
    /\ spans = <<>>
    /\ nones = 0
    /\ parameters = None

CallEmpty ==
    /\ parameters' = Some([ctor |-> "empty", arg |-> None, value |-> empty])
    /\ UNCHANGED <<src, pos, current_char, last, tokens, spans, nones>>

CallFromSingleType ==
    \E t \in Type :
        /\ parameters' = Some([ctor |-> "from_single_type", arg |-> Some(t),
                               value |-> from_single_type(t)])
        /\ UNCHANGED <<src, pos, current_char, last, tokens, spans, nones>>

NextAst ==
    \/ CallEmpty
    \/ CallFromSingleType

SpecAst == InitAst /\ [][NextAst]_vars

---------------------------------------------------------------------------
(* Notions the properties are stated with.                                 *)

\* the last token returned
LastToken(toks) == toks[Len(toks)]

\* the unread input of a lexer at byte offset p
Suffix(s, p) == IF p >= Len(s) THEN <<>> ELSE SubSeq(s, p + 1, Len(s))

\* the number of bytes of the character that starts at byte offset i
CharLen(s, i) == IF s[i + 1] \in LeadBytes THEN 2 ELSE 1

\* the byte offset where the maximal run of alphabetic or numeric characters
\* that starts at byte offset i ends
RECURSIVE RunEnd(_, _)
RunEnd(s, i) ==
    LET c == FirstCharFrom(s, i) IN
    IF c # None /\ (is_alphabetic(c[1]) \/ is_numeric(c[1]))
    THEN RunEnd(s, i + CharLen(s, i))
    ELSE i

\* the 25 reserved words, with the names of their keywords
ReservedWords ==
    { <<"Break", <<"b","r","e","a","k">> >>,
      <<"Case", <<"c","a","s","e">> >>,
      <<"Chan", <<"c","h","a","n">> >>,
      <<"Const", <<"c","o","n","s","t">> >>,
      <<"Continue", <<"c","o","n","t","i","n","u","e">> >>,
      <<"Default", <<"d","e","f","a","u","l","t">> >>,
      <<"Defer", <<"d","e","f","e","r">> >>,
      <<"Else", <<"e","l","s","e">> >>,
      <<"Fallthrough", <<"f","a","l","l","t","h","r","o","u","g","h">> >>,
      <<"For", <<"f","o","r">> >>,
      <<"Func", <<"f","u","n","c">> >>,
      <<"Go", <<"g","o">> >>,
      <<"Goto", <<"g","o","t","o">> >>,
      <<"If", <<"i","f">> >>,
      <<"Import", <<"i","m","p","o","r","t">> >>,
      <<"Interface", <<"i","n","t","e","r","f","a","c","e">> >>,
      <<"Map", <<"m","a","p">> >>,
      <<"Package", <<"p","a","c","k","a","g","e">> >>,
      <<"Range", <<"r","a","n","g","e">> >>,
      <<"Return", <<"r","e","t","u","r","n">> >>,
      <<"Select", <<"s","e","l","e","c","t">> >>,
      <<"Struct", <<"s","t","r","u","c","t">> >>,
      <<"Switch", <<"s","w","i","t","c","h">> >>,
      <<"Type", <<"t","y","p","e">> >>,
      <<"Var", <<"v","a","r">> >> }

---------------------------------------------------------------------------
(* C1.                                                                     *)

\* C1: a call of next() returns None only when no character is left at the
\* cursor; in every other case it returns exactly one token and the byte
\* position after the call is strictly greater than before it.  So the first
\* call on a non-empty source does not return None, and on the empty source
\* no token is ever returned.
C1_NextReturnsOneTokenUnlessEOF ==
    [][ /\ last' = "none" => current_char = None /\ pos >= Len(src)
        /\ current_char # None =>
              /\ last' = "some"
              /\ Len(tokens') = Len(tokens) + 1
              /\ pos' > pos
        /\ src = <<>> => tokens' = <<>>
        /\ (last = "init" /\ src # <<>>) => last' # "none" ]_vars

---------------------------------------------------------------------------
(* C2.                                                                     *)

\* s tokenizes to exactly one token
SingleToken(s) == ~tokenize(s).panic /\ Len(tokenize(s).tokens) = 1

\* the ways to cut the source in two texts that each tokenize to one token
SingleTokenCuts ==
    {k \in 1..(Len(src) - 1) :
        /\ ValidUtf8(SubSeq(src, 1, k))
        /\ ValidUtf8(SubSeq(src, k + 1, Len(src)))
        /\ SingleToken(SubSeq(src, 1, k))
        /\ SingleToken(SubSeq(src, k + 1, Len(src)))}

\* tokenize(src) has ended and gave the token of a followed by the token of b
ConcatOfTokens(a, b) ==
    /\ last = "none"
    /\ tokens = tokenize(a).tokens \o tokenize(b).tokens

\* the token of a can go on into b: a is '+', '-' or '|' and b starts with the
\* same character or '='; a is an identifier or keyword and b starts with an
\* alphabetic or numeric character; a is whitespace and b starts with
\* whitespace; a is a string literal without its closing quote
RunsOn(a, b) ==
    LET t == tokenize(a).tokens[1]
        b0 == FirstCharFrom(b, 0)[1]
    IN  \/ t.kind \in {"Plus", "Minus", "Pipe"} /\ b0 \in {a[1], "="}
        \/ t.kind \in {"Ident", "Keyword"} /\ (is_alphabetic(b0) \/ is_numeric(b0))
        \/ t.kind = "Whitespace" /\ is_whitespace(b0)
        \/ t.kind = "LiteralStr" /\ Len(t.arg) + 2 # Len(a)

\* C2, as claimed: for any two texts A and B that each tokenize to exactly one
\* token, tokenize(A ++ B) is the token of A followed by the token of B.
C2_ConcatOfAnySingleTokens ==
    last \in {"none", "panic"} =>
        \A k \in SingleTokenCuts :
            ConcatOfTokens(SubSeq(src, 1, k), SubSeq(src, k + 1, Len(src)))

\* C2, amended: for any two texts A and B that each tokenize to exactly one
\* token, tokenize(A ++ B) is the token of A followed by the token of B,
\* provided the token of A cannot go on into B (RunsOn).
C2_ConcatOfSeparableSingleTokens ==
    last \in {"none", "panic"} =>
        \A k \in SingleTokenCuts :
            ~RunsOn(SubSeq(src, 1, k), SubSeq(src, k + 1, Len(src))) =>
                ConcatOfTokens(SubSeq(src, 1, k), SubSeq(src, k + 1, Len(src)))

\* tokenize has ended on a source that is an operator in its short form
\* followed by another single token it cannot run on into
C2_Witness ==
    /\ last = "none"
    /\ \E k \in SingleTokenCuts :
          /\ ~RunsOn(SubSeq(src, 1, k), SubSeq(src, k + 1, Len(src)))
          /\ tokenize(SubSeq(src, 1, k)).tokens[1].kind = "Minus"
          /\ Len(tokens) = 2

---------------------------------------------------------------------------
(* C3.                                                                     *)

\* C3: the token next() returns depends only on the unread input.  Every call
\* ends as the first call of a new lexer over the unread suffix alone ends:
\* the same outcome, the same token, the same number of bytes consumed.  Two
\* lexers with the same unread suffix therefore agree, whatever their sources
\* and the tokens they returned before.
C3_NextDependsOnUnreadSuffixOnly ==
    [][ LET suffix == Suffix(src, pos)
            fresh == LexerNext(suffix, LexerNew(suffix).pos,
                               LexerNew(suffix).current_char)
        IN  /\ last' = fresh.outcome
            /\ pos' - pos = fresh.pos
            /\ last' = "some" => LastToken(tokens') = fresh.tok ]_vars

\* an identifier has been returned by a call that was not the first, from a
\* position inside the source
C3_Witness ==
    /\ Len(tokens) >= 2
    /\ spans[Len(tokens)][1] > 0
    /\ LastToken(tokens).kind = "Ident"

---------------------------------------------------------------------------
(* C4.                                                                     *)

\* C4: a string literal that is never closed before the end of the input is
\* an error; no Literal(Str(..)) token is returned for it.  Every string
\* token returned spans an opening quote and, as its last byte, a closing one.
C4_NoTokenForUnterminatedString ==
    \A i \in 1..Len(tokens) :
        tokens[i].kind = "LiteralStr" =>
            /\ spans[i][2] - spans[i][1] >= 2
            /\ spans[i][2] <= Len(src)
            /\ src[spans[i][2]] = "\""

---------------------------------------------------------------------------
(* C5.                                                                     *)

\* C5: when the character at the cursor can start no token, next() gives a
\* recoverable error value; it never panics.
C5_UnexpectedCharacterDoesNotPanic ==
    [][ (current_char # None /\ ArmOf(current_char[1]) = "unexpected")
            => last' # "panic" ]_vars

---------------------------------------------------------------------------
(* C6.                                                                     *)

\* C6: maximal munch for '+', '-' and '|'.  Followed by the same character
\* the operator gives the one doubled token; followed by '=' the one
\* assignment token; followed by anything else, or by the end of the input,
\* the short token, and what follows is left at the cursor unconsumed.
C6_MaximalMunch ==
    [][ (current_char # None /\ current_char[1] \in {"+", "-", "|"}) =>
          LET c == current_char[1]
              follow == FirstCharFrom(src, pos + 1)
              kind == LastToken(tokens').kind
          IN  /\ last' = "some"
              /\ Len(tokens') = Len(tokens) + 1
              /\ LastToken(tokens').arg = <<>>
              /\ IF follow = Some(c)
                 THEN /\ pos' = pos + 2
                      /\ kind = (CASE c = "+" -> "Increment"
                                   [] c = "-" -> "Decrement"
                                   [] OTHER -> "PipePipe")
                 ELSE IF follow = Some("=")
                 THEN /\ pos' = pos + 2
                      /\ kind = (CASE c = "+" -> "PlusEquals"
                                   [] c = "-" -> "MinusEquals"
                                   [] OTHER -> "PipeEquals")
                 ELSE /\ pos' = pos + 1
                      /\ current_char' = follow
                      /\ kind = (CASE c = "+" -> "Plus"
                                   [] c = "-" -> "Minus"
                                   [] OTHER -> "Pipe") ]_vars

\* "||" gave PipePipe, "-=" gave MinusEquals or '+' before another character
\* gave Plus and left that character at the cursor
C6_Witness ==
    /\ tokens # <<>>
    /\ \/ LastToken(tokens).kind = "PipePipe" /\ Len(tokens) = 1
       \/ LastToken(tokens).kind = "MinusEquals"
       \/ LastToken(tokens).kind = "Plus" /\ current_char = Some("g")

---------------------------------------------------------------------------
(* C7.                                                                     *)

\* C7: a maximal run of alphabetic or numeric characters that starts with an
\* alphabetic character is returned as one token: Keyword(K) if and only if
\* the whole run is the reserved word of K, and otherwise Ident(text) with
\* the whole run as its text.
C7_KeywordOrIdentifierIsTheWholeRun ==
    [][ (current_char # None /\ is_alphabetic(current_char[1])) =>
          LET run == SubSeq(src, pos + 1, RunEnd(src, pos))
              tok == LastToken(tokens')
          IN  /\ last' = "some"
              /\ Len(tokens') = Len(tokens) + 1
              /\ pos' = RunEnd(src, pos)
              /\ tok.kind \in {"Keyword", "Ident"}
              /\ tok.kind = "Keyword" <=> \E w \in ReservedWords : w[2] = run
              /\ tok.kind = "Keyword" => <<tok.arg[1], run>> \in ReservedWords
              /\ tok.kind = "Ident" => tok.arg = run ]_vars

---------------------------------------------------------------------------
(* C8.                                                                     *)

\* tokenize has stopped: collect() got None from next(), or a call panicked
Stopped == last \in {"none", "panic"}

\* C8: tokenize terminates on every finite input, with next() returning None:
\* the calls of next() and the bytes they consume are bounded by the length
\* of the input, and when tokenize stops, it is because next() has returned
\* None.
C8_TokenizeEndsWithNone ==
    /\ Len(tokens) <= Len(src)
    /\ pos <= Len(src) + 1
    /\ Stopped => last = "none"

---------------------------------------------------------------------------
(* C9.                                                                     *)

\* the bytes from offset a to offset b hold a character of more than one byte
HasMultiByteChar(s, a, b) == \E i \in (a + 1)..b : s[i] \in LeadBytes

\* C9: identifier scanning is Unicode-aware.  On an identifier run that holds
\* an alphabetic or numeric character of more than one byte, next() consumes
\* the whole run and returns one Ident token with the run as its text; the
\* cursor is left on a character boundary and the call does not panic.
C9_MultiByteIdentifier ==
    [][ (/\ current_char # None
         /\ is_alphabetic(current_char[1])
         /\ HasMultiByteChar(src, pos, RunEnd(src, pos))) =>
            /\ last' = "some"
            /\ LastToken(tokens') =
                   Tok("Ident", SubSeq(src, pos + 1, RunEnd(src, pos)))
            /\ pos' = RunEnd(src, pos)
            /\ is_char_boundary(src, pos') ]_vars

---------------------------------------------------------------------------
(* C10.                                                                    *)

\* the token the claim gives for a single-character token
DelimTokenOf(c) ==
    CASE c = "(" -> Tok("OpenDelim", <<"Paren">>)
      [] c = ")" -> Tok("CloseDelim", <<"Paren">>)
      [] c = "{" -> Tok("OpenDelim", <<"Brace">>)
      [] c = "}" -> Tok("CloseDelim", <<"Brace">>)
      [] c = "[" -> Tok("OpenDelim", <<"Bracket">>)
      [] c = "]" -> Tok("CloseDelim", <<"Bracket">>)
      [] c = "," -> Tok("Comma", <<>>)

\* C10: each of '(' ')' '{' '}' '[' ']' ',' consumes exactly one character and
\* gives its token whatever follows; so a source made of these characters
\* alone gives one token per character, in source order, and ends with None.
C10_SingleCharacterTokens ==
    /\ \A i \in 1..Len(tokens) :
          src[spans[i][1] + 1] \in DelimBytes =>
              /\ tokens[i] = DelimTokenOf(src[spans[i][1] + 1])
              /\ spans[i][2] = spans[i][1] + 1
    /\ (\A j \in 1..Len(src) : src[j] \in DelimBytes) =>
          /\ last # "panic"
          /\ \A i \in 1..Len(tokens) : spans[i] = <<i - 1, i>>
          /\ last = "none" => Len(tokens) = Len(src)

\* tokenize("()") has ended with [OpenDelim(Paren), CloseDelim(Paren)]
C10_Witness ==
    /\ last = "none"
    /\ src = <<"(", ")">>
    /\ tokens = <<Tok("OpenDelim", <<"Paren">>), Tok("CloseDelim", <<"Paren">>)>>

---------------------------------------------------------------------------
(* C11.                                                                    *)

\* C11: Parameters::empty() gives a parameter list with no declaration, and
\* Parameters::from_single_type(t) gives one with exactly one declaration,
\* whose identifier list is empty and whose type is t; neither constructor
\* makes up an identifier.
C11_ParametersConstructors ==
    parameters # None =>
        LET call == parameters[1]
            decls == call.value.decls
        IN  /\ call.ctor = "empty" => Len(decls) = 0
            /\ call.ctor = "from_single_type" =>
                  /\ Len(decls) = 1
                  /\ decls[1].identifiers = <<>>
                  /\ Some(decls[1].typ) = call.arg
            /\ \A i \in 1..Len(decls) : Len(decls[i].identifiers) = 0

\* from_single_type was called with a package-qualified type name
C11_Witness ==
    /\ parameters # None
    /\ parameters[1].ctor = "from_single_type"
    /\ parameters[1].arg = Some(<<"Plain", Some(<<"g", "o">>), <<"t">>>>)
    /\ Len(parameters[1].value.decls) = 1

---------------------------------------------------------------------------
(* C12.                                                                    *)

\* the byte offset where the maximal run of whitespace characters that starts
\* at byte offset i ends
RECURSIVE WhitespaceRunEnd(_, _)
WhitespaceRunEnd(s, i) ==
    LET c == FirstCharFrom(s, i) IN
    IF c # None /\ is_whitespace(c[1])
    THEN WhitespaceRunEnd(s, i + CharLen(s, i))
    ELSE i

\* C12: a whitespace run is scanned maximally.  next() on a whitespace
\* character consumes every consecutive whitespace character and returns
\* exactly one Whitespace token; so no Whitespace token follows another, and
\* no whitespace is dropped: the token spans the whole run.
C12_WhitespaceRunIsOneToken ==
    [][ (current_char # None /\ is_whitespace(current_char[1])) =>
            /\ last' = "some"
            /\ tokens' = Append(tokens, Tok("Whitespace", <<>>))
            /\ pos' = WhitespaceRunEnd(src, pos)
            /\ spans' = Append(spans, <<pos, WhitespaceRunEnd(src, pos)>>)
            /\ tokens # <<>> => LastToken(tokens).kind # "Whitespace" ]_vars

---------------------------------------------------------------------------
(* C13.                                                                    *)

\* the byte offset of the unescaped '"' that closes a string literal whose
\* text starts at byte offset i, or -1 when there is none: a backslash
\* escapes the character after it
RECURSIVE ClosingQuote(_, _)
ClosingQuote(s, i) ==
    IF i >= Len(s) THEN -1
    ELSE IF s[i + 1] = "\"" THEN i
    ELSE IF s[i + 1] = "\\"
         THEN IF i + 1 >= Len(s) THEN -1
              ELSE ClosingQuote(s, i + 1 + CharLen(s, i + 1))
    ELSE ClosingQuote(s, i + CharLen(s, i))

\* C13: a string literal that starts at '"' is consumed up to its unescaped
\* closing '"' and returned as one Literal(Str(t)) token, t being the raw
\* source text strictly between the two quotes; the closing quote is consumed
\* and the next token starts at the character right after it.
C13_StringLiteralIsTheRawInterior ==
    [][ (current_char = Some("\"") /\ ClosingQuote(src, pos + 1) # -1) =>
          LET close == ClosingQuote(src, pos + 1) IN
            /\ last' = "some"
            /\ tokens' = Append(tokens,
                                Tok("LiteralStr", SubSeq(src, pos + 2, close)))
            /\ pos' = close + 1
            /\ current_char' = FirstCharFrom(src, close + 1) ]_vars

---------------------------------------------------------------------------
(* C14.                                                                    *)

\* the cursor (p, cc) over s is coherent: cc is the character of s at byte
\* offset p when p is before the end of s, and None when p is at or past it
Coherent(s, p, cc) ==
    IF p < Len(s)
    THEN is_char_boundary(s, p) /\ cc = FirstCharFrom(s, p)
    ELSE cc = None

---------------------------------------------------------------------------
(* C15.                                                                    *)

\* C15: the tokens cover the input without gaps or overlaps.  The range of
\* each token starts where the range of the token before it ended, the first
\* at offset 0, and no range is empty; when next() returns None every byte of
\* the source lies in the range of exactly one token.
C15_TokensCoverTheInput ==
    /\ Len(spans) = Len(tokens)
    /\ \A i \in 1..Len(spans) :
          /\ spans[i][1] = (IF i = 1 THEN 0 ELSE spans[i - 1][2])
          /\ spans[i][1] < spans[i][2]
    /\ last = "none" =>
          \A j \in 0..(Len(src) - 1) :
              Cardinality({i \in 1..Len(spans) :
                              spans[i][1] <= j /\ j < spans[i][2]}) = 1

\* next() has returned None after three tokens
C15_Witness ==
    /\ last = "none"
    /\ Len(tokens) = 3
    /\ spans[3][2] >= Len(src)

---------------------------------------------------------------------------
(* C16.                                                                    *)

\* C16: end of input is absorbing.  Once next() has returned None, every
\* later call returns None and leaves pos and current_char unchanged.
C16_EndOfInputIsAbsorbing ==
    [][ last = "none" =>
            /\ last' = "none"
            /\ pos' = pos
            /\ current_char' = current_char
            /\ tokens' = tokens ]_vars

\* next() has returned None twice, after a token
C16_Witness ==
    /\ nones >= 2
    /\ last = "none"
    /\ tokens # <<>>

---------------------------------------------------------------------------
(* C17.                                                                    *)

\* C17: every slice taken in next() is in bounds.  When the identifier arm or
\* the string arm reaches its slice src[start..pos], start <= pos <= len
\* holds, and the arm does not panic there but returns its token; also when
\* a '"' is the last character of the input and when a string literal is not
\* terminated.
C17_SlicesAreInBounds ==
    [][ /\ (current_char # None /\ can_start_identifier(current_char[1])) =>
              LET start == pos
                  lp == IdentLoop(src, pos, current_char)
              IN  ~lp.panic =>
                      /\ start <= lp.pos
                      /\ lp.pos <= Len(src)
                      /\ last' = "some"
        /\ current_char = Some("\"") =>
              LET b1 == bump(src, pos, current_char)
                  start == b1.pos
                  lp == StringLoop(src, b1.pos, b1.current_char)
              IN  (~b1.panic /\ ~lp.panic) =>
                      /\ start <= lp.pos
                      /\ lp.pos <= Len(src)
                      /\ last' = "some"
                      /\ pos' = lp.pos + 1 ]_vars

\* the string arm has taken its slice at the very end of the source, for a
\* '"' that is the last character of the input, after another token
C17_Witness ==
    /\ Len(tokens) >= 2
    /\ LastToken(tokens) = Tok("LiteralStr", <<>>)
    /\ src[Len(src)] = "\""
    /\ spans[Len(tokens)] = <<Len(src) - 1, Len(src) + 1>>

====
